---- MODULE Spec2Model ----
(***************************************************************************)
(* State-machine model of desco_balance.py: one run of the script, from    *)
(* the configuration check in __main__ through get_desco_balance() and     *)
(* send_telegram_message() to process exit.                                *)
(*                                                                         *)
(* Python str values are sequences of one-character strings, so that       *)
(* re.sub, float(), str.strip, the `in` substring test and f-string        *)
(* concatenation are computed character by character.                      *)
(***************************************************************************)
EXTENDS Integers, Sequences, FiniteSets, TLC

VARIABLES
    env,                \* os.environ: DESCO_ACCOUNT_NO, BOT_TOKEN, CHAT_ID
    pc,                 \* position of the single thread of control
    session,            \* requests.Session(): "none", "open", "closed"
    soup_login,         \* parsed login page (local of get_desco_balance)
    login_data,         \* form fields to POST (local)
    post_url,           \* URL the login form is POSTed to (local)
    login_response,     \* response of the login POST (local)
    balance_element,    \* the <span> found by the search loop (local)
    raw_balance_text,   \* result of get_desco_balance / argument of send
    path,               \* branch of get_desco_balance that set the result
    message,            \* local `message` of send_telegram_message
    balance_float,      \* local `balance_float` of send_telegram_message
    calls,              \* network requests issued, in order
    out,                \* lines printed on the diagnostic output
    fault,              \* stage an unhandled exception escaped from
    exit_status         \* process exit status once pc = "done"

vars == <<env, pc, session, soup_login, login_data, post_url, login_response,
          balance_element, raw_balance_text, path, message, balance_float,
          calls, out, fault, exit_status>>

-----------------------------------------------------------------------------
(* Bounds of the explored input space.                                     *)

\* hidden <input> elements on the login page
MaxInputs == 1
\* <p> elements on the post-login page
MaxPTags == 2

-----------------------------------------------------------------------------
(* Module-level configuration, lines 10-22.                                *)

LOGIN_URL == <<"h", "t", "t", "p", "s", ":", "/", "/", "p", "r", "e", "p", "a", "i", "d", ".", "d", "e", "s", "c", "o", ".", "o", "r", "g", ".", "b", "d", "/", "c", "u", "s", "t", "o", "m", "e", "r", "/", "#", "/", "c", "u", "s", "t", "o", "m", "e", "r", "-", "l", "o", "g", "i", "n">>
BALANCE_PAGE_URL == <<"h", "t", "t", "p", "s", ":", "/", "/", "p", "r", "e", "p", "a", "i", "d", ".", "d", "e", "s", "c", "o", ".", "o", "r", "g", ".", "b", "d", "/", "c", "u", "s", "t", "o", "m", "e", "r", "/", "#", "/", "c", "u", "s", "t", "o", "m", "e", "r", "-", "i", "n", "f", "o">>
ACCOUNT_NO_FIELD_NAME == "account_no"

possible_token_names ==
    <<"csrf_token", "_token", "authenticity_token", "__VIEWSTATE", "__EVENTVALIDATION">>

\* literal strings of the source
CouldNotRetrieveBalance == <<"C", "o", "u", "l", "d", " ", "n", "o", "t", " ", "r", "e", "t", "r", "i", "e", "v", "e", " ", "b", "a", "l", "a", "n", "c", "e">>
ElementNotFoundText == <<"B", "a", "l", "a", "n", "c", "e", " ", "e", "l", "e", "m", "e", "n", "t", " ", "s", "t", "r", "u", "c", "t", "u", "r", "e", " ", "n", "o", "t", " ", "f", "o", "u", "n", "d", ".">>
LoginFailedText == <<"L", "o", "g", "i", "n", " ", "f", "a", "i", "l", "e", "d", ".", " ", "C", "h", "e", "c", "k", " ", "c", "r", "e", "d", "e", "n", "t", "i", "a", "l", "s", ",", " ", "t", "o", "k", "e", "n", "s", ",", " ", "o", "r", " ", "w", "e", "b", "s", "i", "t", "e", " ", "c", "h", "a", "n", "g", "e", "s", ".">>
NetworkErrorPrefix == <<"N", "e", "t", "w", "o", "r", "k", " ", "E", "r", "r", "o", "r", ":", " ">>
ScriptErrorPrefix == <<"S", "c", "r", "i", "p", "t", " ", "E", "r", "r", "o", "r", ":", " ">>
HeaderPrefix == <<"D", "E", "S", "C", "O", " ", "B", "a", "l", "a", "n", "c", "e", " ", "U", "p", "d", "a", "t", "e", " ", "(">>
HeaderSuffix == <<")", ":", "\n", "\n">>
recharge_reminder == <<"\n", "\n", "⚠", "U+FE0F", " ", "L", "o", "w", " ", "B", "a", "l", "a", "n", "c", "e", "!", " ", "P", "l", "e", "a", "s", "e", " ", "r", "e", "c", "h", "a", "r", "g", "e", " ", "s", "o", "o", "n", ".">>
TelegramApiPrefix == <<"h", "t", "t", "p", "s", ":", "/", "/", "a", "p", "i", ".", "t", "e", "l", "e", "g", "r", "a", "m", ".", "o", "r", "g", "/", "b", "o", "t">>
TelegramApiSuffix == <<"/", "s", "e", "n", "d", "M", "e", "s", "s", "a", "g", "e">>
LogoutMarker == "Logout"
AccountSummaryMarker == "Account Summary"

-----------------------------------------------------------------------------
(* Python built-ins used by the script, on character sequences.            *)

Digits == {"0", "1", "2", "3", "4", "5", "6", "7", "8", "9"}

DigitValue(c) ==
    CASE c = "0" -> 0 [] c = "1" -> 1 [] c = "2" -> 2 [] c = "3" -> 3
      [] c = "4" -> 4 [] c = "5" -> 5 [] c = "6" -> 6 [] c = "7" -> 7
      [] c = "8" -> 8 [] c = "9" -> 9

\* bool(x) for an optional str: None and "" are falsy
Truthy(v) == v.set /\ v.val # <<>>

None == [set |-> FALSE, val |-> <<>>]
Some(s) == [set |-> TRUE, val |-> s]

\* sub in s
Contains(s, sub) ==
    \E i \in 0..(Len(s) - Len(sub)) : SubSeq(s, i + 1, i + Len(sub)) = sub

\* s.startswith(p)
StartsWith(s, p) == Len(s) >= Len(p) /\ SubSeq(s, 1, Len(p)) = p

\* s.endswith(p)
EndsWith(s, p) == Len(s) >= Len(p) /\ SubSeq(s, Len(s) - Len(p) + 1, Len(s)) = p

RECURSIVE LStrip(_, _)
LStrip(s, c) == IF s # <<>> /\ Head(s) = c THEN LStrip(Tail(s), c) ELSE s

RECURSIVE RStrip(_, _)
RStrip(s, c) ==
    IF s # <<>> /\ s[Len(s)] = c THEN RStrip(SubSeq(s, 1, Len(s) - 1), c) ELSE s

\* s.strip('/')
Strip(s, c) == RStrip(LStrip(s, c), c)

\* re.sub(r'[^\d.]', '', s): keep the digits and the dots
KeepNumeric(s) == SelectSeq(s, LAMBDA c : c \in Digits \/ c = ".")

CountDots(s) == Len(SelectSeq(s, LAMBDA c : c = "."))
OnlyDigits(s) == SelectSeq(s, LAMBDA c : c \in Digits)

\* float(s) raises ValueError, for s made of digits and dots only
FloatRaises(s) == OnlyDigits(s) = <<>> \/ CountDots(s) > 1

RECURSIVE DigitsToNat(_)
DigitsToNat(d) ==
    IF d = <<>> THEN 0
    ELSE 10 * DigitsToNat(SubSeq(d, 1, Len(d) - 1)) + DigitValue(d[Len(d)])

RECURSIVE Pow10(_)
Pow10(n) == IF n = 0 THEN 1 ELSE 10 * Pow10(n - 1)

RECURSIVE IndexOf(_, _)
IndexOf(s, c) == IF s = <<>> \/ Head(s) = c THEN 1 ELSE 1 + IndexOf(Tail(s), c)

\* float(s) as the exact decimal fraction num / den
\* (a double holds it exactly enough for the comparison with 100 as long as
\* s has at most 15 significant digits)
Float(s) ==
    LET fracLen == IF CountDots(s) = 0 THEN 0 ELSE Len(s) - IndexOf(s, ".")
    IN  [num |-> DigitsToNat(OnlyDigits(s)), den |-> Pow10(fracLen)]

\* balance_float < 100, line 40
BelowThreshold_inclusive(v) == v.num <= 100 * v.den
BelowThreshold(v) == v.num < 100 * v.den

NoFloat == [num |-> 0 - 1, den |-> 1]

-----------------------------------------------------------------------------
(* Exceptions.  An exception is [cls, msg]; str(e) is msg.                 *)

\* subclasses of requests.exceptions.RequestException
RequestExceptionClasses ==
    {"HTTPError", "ConnectionError", "ReadTimeout", "TooManyRedirects", "MissingSchema"}

\* subclasses of Exception (RequestException is one of them)
ExceptionClasses ==
    RequestExceptionClasses \cup {"RecursionError", "ValueError"}

Exc(c, m) == [cls |-> c, msg |-> m]
NoExc == Exc("none", <<>>)

\* transport-level failures of session.get / session.post / requests.post
TransportFaults ==
    { Exc("ReadTimeout", <<"H", "T", "T", "P", "S", "C", "o", "n", "n", "e", "c", "t", "i", "o", "n", "P", "o", "o", "l", "(", "h", "o", "s", "t", "=", "'", "p", "r", "e", "p", "a", "i", "d", ".", "d", "e", "s", "c", "o", ".", "o", "r", "g", ".", "b", "d", "'", ",", " ", "p", "o", "r", "t", "=", "4", "4", "3", ")", ":", " ", "R", "e", "a", "d", " ", "t", "i", "m", "e", "d", " ", "o", "u", "t", ".", " ", "(", "r", "e", "a", "d", " ", "t", "i", "m", "e", "o", "u", "t", "=", "1", "5", ")">>),
      Exc("ConnectionError", <<"(", "'", "C", "o", "n", "n", "e", "c", "t", "i", "o", "n", " ", "a", "b", "o", "r", "t", "e", "d", ".", "'", ",", " ", "R", "e", "m", "o", "t", "e", "D", "i", "s", "c", "o", "n", "n", "e", "c", "t", "e", "d", "(", "'", "R", "e", "m", "o", "t", "e", " ", "e", "n", "d", " ", "c", "l", "o", "s", "e", "d", " ", "c", "o", "n", "n", "e", "c", "t", "i", "o", "n", " ", "w", "i", "t", "h", "o", "u", "t", " ", "r", "e", "s", "p", "o", "n", "s", "e", "'", ")", ")">>),
      Exc("TooManyRedirects", <<"E", "x", "c", "e", "e", "d", "e", "d", " ", "3", "0", " ", "r", "e", "d", "i", "r", "e", "c", "t", "s", ".">>) }

\* failures of BeautifulSoup(content, 'html.parser') on hostile markup
ParseFaults ==
    { Exc("RecursionError", <<"m", "a", "x", "i", "m", "u", "m", " ", "r", "e", "c", "u", "r", "s", "i", "o", "n", " ", "d", "e", "p", "t", "h", " ", "e", "x", "c", "e", "e", "d", "e", "d", " ", "w", "h", "i", "l", "e", " ", "c", "a", "l", "l", "i", "n", "g", " ", "a", " ", "P", "y", "t", "h", "o", "n", " ", "o", "b", "j", "e", "c", "t">>) }

StatusCodes == {200, 404, 500}

StatusLine(status) ==
    CASE status = 200 -> <<"2", "0", "0", " ", "O", "K">>
      [] status = 404 -> <<"4", "0", "4", " ", "C", "l", "i", "e", "n", "t", " ", "E", "r", "r", "o", "r", ":", " ", "N", "o", "t", " ", "F", "o", "u", "n", "d", " ", "f", "o", "r", " ", "u", "r", "l", ":", " ">>
      [] status = 500 -> <<"5", "0", "0", " ", "S", "e", "r", "v", "e", "r", " ", "E", "r", "r", "o", "r", ":", " ", "I", "n", "t", "e", "r", "n", "a", "l", " ", "S", "e", "r", "v", "e", "r", " ", "E", "r", "r", "o", "r", " ", "f", "o", "r", " ", "u", "r", "l", ":", " ">>

\* Response.raise_for_status(): raises HTTPError for 4xx and 5xx
RaiseForStatus(status, url) ==
    IF 400 <= status /\ status < 600
    THEN Exc("HTTPError", StatusLine(status) \o url)
    ELSE NoExc

\* requests refuses to send to a URL without a scheme
HasHttpScheme(url) == StartsWith(url, <<"h", "t", "t", "p", ":", "/", "/">>) \/ StartsWith(url, <<"h", "t", "t", "p", "s", ":", "/", "/">>)

MissingSchema(url) ==
    Exc("MissingSchema",
        <<"I", "n", "v", "a", "l", "i", "d", " ", "U", "R", "L", " ", "'">> \o url \o <<"'", ":", " ", "N", "o", " ", "s", "c", "h", "e", "m", "e", " ", "s", "u", "p", "p", "l", "i", "e", "d", ".", " ", "P", "e", "r", "h", "a", "p", "s", " ", "y", "o", "u", " ", "m", "e", "a", "n", "t", " ", "h", "t", "t", "p", "s", ":", "/", "/">>
            \o url \o <<"?">>)

\* index of the n-th occurrence of c in s, Len(s) + 1 when there is none
RECURSIVE NthIndex(_, _, _)
NthIndex(s, c, n) ==
    IF s = <<>> THEN 1
    ELSE IF Head(s) = c
         THEN IF n = 1 THEN 1 ELSE 1 + NthIndex(Tail(s), c, n - 1)
         ELSE 1 + NthIndex(Tail(s), c, n)

\* urllib.parse.urljoin(base, ref) for a ref that starts with '/'
UrlJoin(base, ref) ==
    IF StartsWith(ref, <<"/", "/">>)
    THEN SubSeq(base, 1, NthIndex(base, ":", 1)) \o ref
    ELSE SubSeq(base, 1, NthIndex(base, "/", 3) - 1) \o ref

-----------------------------------------------------------------------------
(* Inputs the environment can present to one run.                          *)

\* a configuration variable is unset, set to "", or set to a value
EnvValues(v) == {None, Some(<<>>), Some(v)}

AccountNo == <<"1", "2", "3", "4", "5", "6", "7", "8">>
Token == <<"7", ":", "A", "A", "H">>
ChatId == <<"-", "1", "0", "0", "1">>

\* hidden inputs of the login page
InputNames == {"_token", "__VIEWSTATE"}
InputValues == {None, Some(<<>>), Some(<<"t", "k">>)}
Inputs == [name : InputNames, value : InputValues]

SeqsUpTo(S, n) == UNION {[1..k -> S] : k \in 0..n}

\* action attribute of the first <form>
FormActions ==
    { None,
      Some(<<"/", "c", "u", "s", "t", "o", "m", "e", "r", "/", "l", "o", "g", "i", "n">>),
      Some(<<"h", "t", "t", "p", "s", ":", "/", "/", "p", "r", "e", "p", "a", "i", "d", ".", "d", "e", "s", "c", "o", ".", "o", "r", "g", ".", "b", "d", "/", "c", "u", "s", "t", "o", "m", "e", "r", "/", "l", "o", "g", "i", "n">>),
      Some(<<"s", "t", "e", "p", "2">>) }

Forms == {[present |-> FALSE, action |-> None]}
            \cup {[present |-> TRUE, action |-> a] : a \in FormActions}

LoginPages == [inputs : SeqsUpTo(Inputs, MaxInputs), form : Forms]

NoPage == [inputs |-> <<>>, form |-> [present |-> FALSE, action |-> None]]

\* final URL and body markers of the response to the login POST
FinalUrls == {BALANCE_PAGE_URL, BALANCE_PAGE_URL \o <<"/">>, LOGIN_URL}
BodyTexts == SUBSET {LogoutMarker, AccountSummaryMarker}

NoResponse == [status |-> 0, url |-> <<>>, text |-> {}]

\* text of the <span> inside a <p>
SpanTexts == { <<"9", "9", ".", "9", "9">>, <<"1", "0", "0", ".", "0", "0">>, <<"1", ",", "2", "5", "0", ".", "0", "0">>, <<"N", "/", "A">>, <<>> }

\* a <p>: whether its text contains the label, and its first <span>
PTags == [label : BOOLEAN, span : {None} \cup {Some(t) : t \in SpanTexts}]

Timestamps == { <<"0", "3", "-", "N", "o", "v", "-", "2", "0", "2", "6", " ", "1", "0", ":", "2", "5", " ", "A", "M">>, <<"3", "1", "-", "D", "e", "c", "-", "2", "0", "2", "5", " ", "1", "1", ":", "5", "9", " ", "P", "M">> }

-----------------------------------------------------------------------------
(* State after the module-level assignments, before __main__ runs.         *)

EmptyDict == [n \in {} |-> <<>>]
NoMessage == <<>>
Running == 0 - 1

Request(m, u, d) == [method |-> m, url |-> u, data |-> d]

Init ==
    /\ env \in [account : EnvValues(AccountNo), token : EnvValues(Token),
                chat : EnvValues(ChatId)]
    /\ pc = "main"
    /\ session = "none"
    /\ soup_login = NoPage
    /\ login_data = EmptyDict
    /\ post_url = <<>>
    /\ login_response = NoResponse
    /\ balance_element = None
    /\ raw_balance_text = <<>>
    /\ path = "none"
    /\ message = NoMessage
    /\ balance_float = NoFloat
    /\ calls = <<>>
    /\ out = <<>>
    /\ fault = "none"
    /\ exit_status = Running

-----------------------------------------------------------------------------
(* __main__, lines 173-180.                                                *)

\* all([DESCO_ACCOUNT_NO, BOT_TOKEN, CHAT_ID])
AllPresent_any(e) == Truthy(e.account) \/ Truthy(e.token) \/ Truthy(e.chat)
AllPresent(e) == Truthy(e.account) /\ Truthy(e.token) /\ Truthy(e.chat)

\* lines 174-177: the configuration check; falling off the end of the script
\* ends the process with status 0
Main ==
    /\ pc = "main"
    /\ IF ~AllPresent(env)
       THEN /\ out' = Append(out, "Error: Missing one or more secrets")
            /\ pc' = "done"
            /\ exit_status' = 0
       ELSE /\ out' = Append(out, "Starting DESCO balance check...")
            /\ pc' = "get_desco_balance"
            /\ exit_status' = exit_status
    /\ UNCHANGED <<env, session, soup_login, login_data, post_url, login_response,
                   balance_element, raw_balance_text, path, message,
                   balance_float, calls, fault>>

-----------------------------------------------------------------------------
(* get_desco_balance, lines 61-170.                                        *)

\* which except clause of lines 161-166 takes exception e
Handler_requestOnly(e) ==
    IF e.cls \in RequestExceptionClasses THEN "network" ELSE "escape"
Handler(e) ==
    IF e.cls \in RequestExceptionClasses THEN "network"
    ELSE IF e.cls \in ExceptionClasses THEN "script"
    ELSE "escape"

\* lines 161-166: e is raised inside the try block after o was printed
RaiseInTry(e, o) ==
    LET h == Handler(e) IN
    /\ raw_balance_text' =
           IF h = "network" THEN NetworkErrorPrefix \o e.msg
           ELSE IF h = "script" THEN ScriptErrorPrefix \o e.msg
           ELSE raw_balance_text
    /\ path' = IF h = "escape" THEN path ELSE h
    /\ out' = IF h = "network" THEN Append(o, "Network or HTTP error during scraping")
              ELSE IF h = "script" THEN Append(o, "An unexpected error occurred during scraping")
              ELSE o
    /\ fault' = IF h = "escape" THEN "retrieve" ELSE fault
    /\ pc' = "finally"

\* lines 63-65
EnterGetBalance ==
    /\ pc = "get_desco_balance"
    /\ raw_balance_text' = CouldNotRetrieveBalance
    /\ path' = "default"
    /\ session' = "open"
    /\ pc' = "fetch_login"
    /\ UNCHANGED <<env, soup_login, login_data, post_url, login_response,
                   balance_element, message, balance_float, calls, out, fault,
                   exit_status>>

\* lines 68-72: GET the login page, raise_for_status, parse it
FetchLoginPage ==
    /\ pc = "fetch_login"
    /\ calls' = Append(calls, Request("GET", LOGIN_URL, EmptyDict))
    /\ LET o == Append(out, "Fetching login page to find tokens") IN
       \/ \E f \in TransportFaults :
            /\ RaiseInTry(f, o)
            /\ soup_login' = soup_login
       \/ \E s \in StatusCodes :
            /\ RaiseForStatus(s, LOGIN_URL) # NoExc
            /\ RaiseInTry(RaiseForStatus(s, LOGIN_URL), o)
            /\ soup_login' = soup_login
       \/ \E f \in ParseFaults :
            /\ RaiseInTry(f, o)
            /\ soup_login' = soup_login
       \/ \E page \in LoginPages :
            /\ soup_login' = page
            /\ out' = o
            /\ pc' = "find_tokens"
            /\ UNCHANGED <<raw_balance_text, path, fault>>
    /\ UNCHANGED <<env, session, login_data, post_url, login_response,
                   balance_element, message, balance_float, exit_status>>

\* soup.find('input', {'name': name}): the first such element
RECURSIVE FindInput(_, _)
FindInput(inputs, name) ==
    IF inputs = <<>> THEN None
    ELSE IF Head(inputs).name = name THEN Some(Head(inputs).value)
    ELSE FindInput(Tail(inputs), name)

\* token_element and token_element.get('value'), line 80
TokenFound(page, name) ==
    LET el == FindInput(page.inputs, name) IN el.set /\ Truthy(el.val)

\* the names of lines 76-84 for which a token is copied, in loop order
FoundTokens(page) == SelectSeq(possible_token_names, LAMBDA n : TokenFound(page, n))

Range(s) == {s[i] : i \in 1..Len(s)}

\* lines 75-87: the form fields to submit
FindTokens ==
    /\ pc = "find_tokens"
    /\ LET found == FoundTokens(soup_login) IN
       /\ login_data' =
              [n \in {ACCOUNT_NO_FIELD_NAME} \cup Range(found) |->
                  IF n = ACCOUNT_NO_FIELD_NAME THEN env.account.val
                  ELSE FindInput(soup_login.inputs, n).val.val]
       /\ out' = IF found = <<>>
                 THEN Append(out, "No common CSRF/hidden tokens found on login page")
                 ELSE out \o [i \in 1..Len(found) |-> "Found hidden token"]
    /\ pc' = "post_url"
    /\ UNCHANGED <<env, session, soup_login, post_url, login_response,
                   balance_element, raw_balance_text, path, message,
                   balance_float, calls, fault, exit_status>>

\* lines 91-101: the URL the form is submitted to
PostUrl(page) ==
    IF page.form.present /\ Truthy(page.form.action)
    THEN IF StartsWith(page.form.action.val, <<"/">>)
         THEN UrlJoin(LOGIN_URL, page.form.action.val)
         ELSE page.form.action.val
    ELSE LOGIN_URL

\* lines 91-104
DeterminePostUrl ==
    /\ pc = "post_url"
    /\ post_url' = PostUrl(soup_login)
    /\ out' = IF soup_login.form.present /\ Truthy(soup_login.form.action)
              THEN Append(out, "Form action URL found")
              ELSE Append(out, "No <form action=...> found, using LOGIN_URL for POST")
    /\ pc' = "post_login"
    /\ UNCHANGED <<env, session, soup_login, login_data, login_response,
                   balance_element, raw_balance_text, path, message,
                   balance_float, calls, fault, exit_status>>

\* lines 108-111: POST the form, raise_for_status
PostLogin ==
    /\ pc = "post_login"
    /\ LET o == Append(out, "Attempting to POST login data") IN
       IF ~HasHttpScheme(post_url)
       THEN /\ RaiseInTry(MissingSchema(post_url), o)
            /\ UNCHANGED <<calls, login_response>>
       ELSE /\ calls' = Append(calls, Request("POST", post_url, login_data))
            /\ \/ \E f \in TransportFaults :
                    /\ RaiseInTry(f, o)
                    /\ login_response' = login_response
               \/ \E s \in StatusCodes, u \in FinalUrls :
                    /\ RaiseForStatus(s, u) # NoExc
                    /\ RaiseInTry(RaiseForStatus(s, u), o)
                    /\ login_response' = login_response
               \/ \E s \in StatusCodes, u \in FinalUrls, t \in BodyTexts :
                    /\ RaiseForStatus(s, u) = NoExc
                    /\ login_response' = [status |-> s, url |-> u, text |-> t]
                    /\ out' = o
                    /\ pc' = "check_login"
                    /\ UNCHANGED <<raw_balance_text, path, fault>>
    /\ UNCHANGED <<env, session, soup_login, login_data, post_url,
                   balance_element, message, balance_float, exit_status>>

\* line 117: the login-success heuristic
LoginSucceeded_noSummary(r) ==
    \/ Strip(r.url, "/") = Strip(BALANCE_PAGE_URL, "/")
    \/ LogoutMarker \in r.text
LoginSucceeded(r) ==
    \/ Strip(r.url, "/") = Strip(BALANCE_PAGE_URL, "/")
    \/ LogoutMarker \in r.text
    \/ AccountSummaryMarker \in r.text

\* lines 115-119 and 153-159
CheckLogin ==
    /\ pc = "check_login"
    /\ IF LoginSucceeded(login_response)
       THEN /\ out' = Append(out, "Login successful (probably). Parsing balance page...")
            /\ pc' = "search_balance"
            /\ UNCHANGED <<raw_balance_text, path>>
       ELSE /\ out' = out \o <<"Login failed. Status code, final URL",
                               "--- LOGIN FAILED - PAGE CONTENT START ---",
                               "login_response.text[:1000]",
                               "--- LOGIN FAILED - PAGE CONTENT END ---">>
            /\ raw_balance_text' = LoginFailedText
            /\ path' = "loginfailed"
            /\ pc' = "finally"
    /\ UNCHANGED <<env, session, soup_login, login_data, post_url, login_response,
                   balance_element, message, balance_float, calls, fault,
                   exit_status>>

\* lines 133-141: the loop over the <p> elements; el is balance_element and
\* o the lines printed so far
RECURSIVE SearchLoop(_, _, _)
SearchLoop(tags, el, o) ==
    IF tags = <<>> THEN [element |-> el, printed |-> o]
    ELSE IF Head(tags).label
         THEN IF Head(tags).span.set
              THEN [element |-> Head(tags).span,
                    printed |-> o \o <<"Found relevant <p> tag.", "Found <span> tag inside.">>]
              ELSE SearchLoop(Tail(tags), Head(tags).span,
                              o \o <<"Found relevant <p> tag.", "No <span> inside relevant <p>.">>)
         ELSE SearchLoop(Tail(tags), el, o)

\* lines 128-152: parse the post-login page and extract the balance text
SearchBalance ==
    /\ pc = "search_balance"
    /\ \/ \E f \in ParseFaults :
            /\ RaiseInTry(f, out)
            /\ balance_element' = balance_element
       \/ \E tags \in SeqsUpTo(PTags, MaxPTags) :
            LET r == SearchLoop(tags, None, Append(out, "Searching for balance element...")) IN
            /\ balance_element' = r.element
            /\ IF r.element.set
               THEN /\ raw_balance_text' = r.element.val
                    /\ path' = "found"
                    /\ out' = Append(r.printed, "Raw balance text found")
               ELSE /\ raw_balance_text' = ElementNotFoundText
                    /\ path' = "notfound"
                    /\ out' = r.printed \o
                              <<"Balance element structure not found on dashboard page.",
                                "--- DASHBOARD HTML START (DEBUG) ---",
                                "soup_balance.prettify()[:2000]",
                                "--- DASHBOARD HTML END (DEBUG) ---">>
            /\ pc' = "finally"
            /\ fault' = fault
    /\ UNCHANGED <<env, session, soup_login, login_data, post_url, login_response,
                   message, balance_float, calls, exit_status>>

\* lines 167-170: close the session, then return the result to __main__
\* (or let an exception no clause took propagate: traceback, status 1)
Finally ==
    /\ pc = "finally"
    /\ session' = "closed"
    /\ IF fault = "retrieve"
       THEN /\ pc' = "done"
            /\ exit_status' = 1
            /\ out' = Append(out, "Traceback (most recent call last)")
       ELSE /\ pc' = "send_telegram_message"
            /\ exit_status' = exit_status
            /\ out' = out
    /\ soup_login' = NoPage
    /\ login_data' = EmptyDict
    /\ post_url' = <<>>
    /\ login_response' = NoResponse
    /\ balance_element' = None
    /\ UNCHANGED <<env, raw_balance_text, path, message, balance_float, calls, fault>>

-----------------------------------------------------------------------------
(* send_telegram_message, lines 27-59.                                     *)

\* line 32: the f-string
FormatMessage_noText(timestamp, text) == HeaderPrefix \o timestamp \o HeaderSuffix
FormatMessage(timestamp, text) == HeaderPrefix \o timestamp \o HeaderSuffix \o text

\* lines 29-33, outside any try: a failed time-zone lookup propagates to
\* __main__ and ends the process with a traceback and status 1
ComputeTimestamp ==
    /\ pc = "send_telegram_message"
    /\ \/ \E ts \in Timestamps :
            /\ message' = FormatMessage(ts, raw_balance_text)
            /\ pc' = "check_low_balance"
            /\ UNCHANGED <<fault, exit_status, out>>
       \/ /\ fault' = "notify"
          /\ pc' = "done"
          /\ exit_status' = 1
          /\ out' = Append(out, "Traceback (most recent call last)")
          /\ message' = message
    /\ UNCHANGED <<env, session, soup_login, login_data, post_url, login_response,
                   balance_element, raw_balance_text, path, balance_float, calls>>

\* line 44
LooksLikeFailure(text) ==
    \/ Contains(text, <<"C", "o", "u", "l", "d", " ", "n", "o", "t", " ", "r", "e", "t", "r", "i", "e", "v", "e">>)
    \/ Contains(text, <<"n", "o", "t", " ", "f", "o", "u", "n", "d">>)
    \/ Contains(text, <<"f", "a", "i", "l", "e", "d">>)

\* lines 36-38: the text carries a number float() accepts
HasNumber(text) == KeepNumeric(text) # <<>> /\ ~FloatRaises(KeepNumeric(text))

\* lines 35-51: the numeric check and the recharge reminder
CheckLowBalance ==
    /\ pc = "check_low_balance"
    /\ LET cleaned_balance == KeepNumeric(raw_balance_text) IN
       IF cleaned_balance # <<>>
       THEN IF FloatRaises(cleaned_balance)
            THEN /\ out' = Append(out, "Could not convert cleaned balance to a number.")
                 /\ UNCHANGED <<balance_float, message>>
            ELSE /\ balance_float' = Float(cleaned_balance)
                 /\ IF BelowThreshold(Float(cleaned_balance))
                    THEN /\ message' = message \o recharge_reminder
                         /\ out' = out \o <<"Numeric balance extracted",
                                            "Low balance detected, adding recharge reminder.">>
                    ELSE /\ message' = message
                         /\ out' = Append(out, "Numeric balance extracted")
       ELSE /\ out' = IF LooksLikeFailure(raw_balance_text)
                      THEN Append(out, "Balance retrieval failed, sending raw text.")
                      ELSE Append(out, "Could not extract numeric value from balance text.")
            /\ UNCHANGED <<balance_float, message>>
    /\ pc' = "post_telegram"
    /\ UNCHANGED <<env, session, soup_login, login_data, post_url, login_response,
                   balance_element, raw_balance_text, path, calls, fault,
                   exit_status>>

\* line 53
ApiUrl(e) == TelegramApiPrefix \o e.token.val \o TelegramApiSuffix

\* lines 53-59: the single POST to sendMessage; every failure is printed
PostTelegram ==
    /\ pc = "post_telegram"
    /\ calls' = Append(calls, Request("POST", ApiUrl(env),
                                      [chat_id |-> env.chat.val, text |-> message]))
    /\ \/ \E f \in TransportFaults :
            out' = Append(out, "Error sending Telegram message")
       \/ \E s \in StatusCodes :
            out' = IF RaiseForStatus(s, ApiUrl(env)) # NoExc
                   THEN Append(out, "Error sending Telegram message")
                   ELSE Append(out, "Telegram message sent successfully.")
    /\ pc' = "finish"
    /\ UNCHANGED <<env, session, soup_login, login_data, post_url, login_response,
                   balance_element, raw_balance_text, path, message,
                   balance_float, fault, exit_status>>

\* line 180, then the interpreter exits with status 0
Finish ==
    /\ pc = "finish"
    /\ out' = Append(out, "Script finished.")
    /\ pc' = "done"
    /\ exit_status' = 0
    /\ UNCHANGED <<env, session, soup_login, login_data, post_url, login_response,
                   balance_element, raw_balance_text, path, message,
                   balance_float, calls, fault>>

-----------------------------------------------------------------------------

Next ==
    \/ Main
    \/ EnterGetBalance
    \/ FetchLoginPage
    \/ FindTokens
    \/ DeterminePostUrl
    \/ PostLogin
    \/ CheckLogin
    \/ SearchBalance
    \/ Finally
    \/ ComputeTimestamp
    \/ CheckLowBalance
    \/ PostTelegram
    \/ Finish

Spec == Init /\ [][Next]_vars

-----------------------------------------------------------------------------
(* Observations used by the properties.                                    *)

\* some required configuration value is unset or empty
ConfigMissing ==
    \E k \in {"account", "token", "chat"} : ~env[k].set \/ env[k].val = <<>>

\* the requests POSTed to the sendMessage endpoint
Sends ==
    SelectSeq(calls, LAMBDA r : /\ r.method = "POST"
                                /\ StartsWith(r.url, TelegramApiPrefix)
                                /\ EndsWith(r.url, TelegramApiSuffix))

SentText == Sends[1].data.text

\* the branches get_desco_balance can end on
FailurePaths == {"notfound", "loginfailed", "network", "script"}

\* get_desco_balance has returned to __main__
Returned ==
    \/ pc \in {"send_telegram_message", "check_low_balance", "post_telegram", "finish"}
    \/ pc = "done" /\ ~ConfigMissing /\ fault # "retrieve"

FailedToRetrieve == <<"F", "a", "i", "l", "e", "d", " ", "t", "o", " ", "r", "e", "t", "r", "i", "e", "v", "e", " ", "b", "a", "l", "a", "n", "c", "e", ".">>

-----------------------------------------------------------------------------
(* Properties.                                                             *)

\* C1: a run with all three configuration values present ends with exactly
\* one POST to the sendMessage endpoint, and never issues more than one.
C1_ExactlyOneSend ==
    ~ConfigMissing =>
        /\ Len(Sends) <= 1
        /\ pc = "done" => Len(Sends) = 1

\* C2: when a required configuration value is unset or empty, the run issues
\* no network request at all.
C2_NoCallWithoutConfig == ConfigMissing => calls = <<>>

C2_Witness ==
    /\ ConfigMissing
    /\ pc = "done"
    /\ out = <<"Error: Missing one or more secrets">>
    /\ calls = <<>>

\* C3: the exit status is non-zero when configuration is missing and zero in
\* every run with complete configuration.
C3_ExitStatus ==
    pc = "done" =>
        /\ ConfigMissing => exit_status # 0
        /\ ~ConfigMissing => exit_status = 0

\* C4: no exception escapes get_desco_balance, and once it has returned its
\* result is the text of exactly one of its five outcomes.
C4_RetrievalNeverEscapes ==
    /\ fault # "retrieve"
    /\ Returned =>
        /\ session = "closed"
        /\ \/ path = "found"
           \/ path = "notfound" /\ raw_balance_text = ElementNotFoundText
           \/ path = "loginfailed" /\ raw_balance_text = LoginFailedText
           \/ path = "network" /\ StartsWith(raw_balance_text, NetworkErrorPrefix)
           \/ path = "script" /\ StartsWith(raw_balance_text, ScriptErrorPrefix)

C4_Witness ==
    /\ pc = "send_telegram_message"
    /\ path = "script"
    /\ Contains(raw_balance_text, <<"m", "a", "x", "i", "m", "u", "m", " ", "r", "e", "c", "u", "r", "s", "i", "o", "n", " ", "d", "e", "p", "t", "h", " ", "e", "x", "c", "e", "e", "d", "e", "d">>)

\* C5: no exception escapes send_telegram_message.
C5_NotifierNeverRaises == fault # "notify"

\* C6: the text sent for a failed retrieval never contains the recharge
\* reminder.
C6_NoWarningOnFailure ==
    (Len(Sends) = 1 /\ path \in FailurePaths) =>
        ~Contains(SentText, recharge_reminder)

C8_StrictThreshold ==
    (Len(Sends) = 1 /\ path = "found" /\ HasNumber(raw_balance_text)) =>
        LET v == Float(KeepNumeric(raw_balance_text)) IN
        EndsWith(SentText, recharge_reminder) <=> v.num < 100 * v.den

C8_Witness ==
    /\ Len(Sends) = 1
    /\ path = "found"
    /\ raw_balance_text = <<"1", "0", "0", ".", "0", "0">>
    /\ ~EndsWith(SentText, recharge_reminder)

\* C9: the result handed to send_telegram_message comes from the success
\* branch exactly when it carries a number.
C9_SuccessIffNumeric ==
    pc = "send_telegram_message" =>
        (path = "found" <=> HasNumber(raw_balance_text))

\* C10: after a login POST with a success status, the balance search runs
\* exactly when the final URL is the balance page URL (up to surrounding
\* slashes) or the body has "Logout" or "Account Summary"; otherwise the result
\* is the login failure text and no balance element is looked for.
C10_SearchIffLoginSignal ==
    login_response # NoResponse =>
        LET signal == \/ Strip(login_response.url, "/") = Strip(BALANCE_PAGE_URL, "/")
                      \/ "Logout" \in login_response.text
                      \/ "Account Summary" \in login_response.text
        IN  /\ pc \in {"check_login", "search_balance", "finally"}
            /\ pc = "search_balance" => signal
            /\ pc = "finally" =>
                 IF signal
                 THEN /\ path \in {"found", "notfound", "script"}
                      /\ "Login failed. Status code, final URL" \notin Range(out)
                 ELSE /\ path = "loginfailed"
                      /\ raw_balance_text = LoginFailedText
                      /\ balance_element = None
                      /\ "Searching for balance element..." \notin Range(out)

C10_Witness ==
    /\ pc = "finally"
    /\ login_response.status = 200
    /\ login_response.url = LOGIN_URL
    /\ login_response.text = {}
    /\ path = "loginfailed"
====
